---- MODULE Spec2Model ----
(***************************************************************************)
(* Model of the webhook relay service: the Route Table, the relay call,    *)
(* the BullMQ queue it feeds, and the worker handler that delivers,        *)
(* retries with exponential delay or fails.                                *)
(*                                                                         *)
(* Strings that the code inspects character by character (sourceEvent,     *)
(* source, event) are sequences of one-character strings.  Objects whose   *)
(* key order the code observes (the routes Map, payload.data) are          *)
(* sequences in insertion order.                                           *)
(***************************************************************************)
EXTENDS Integers, Sequences, FiniteSets, TLC

(***************************************************************************)
(* routes     the routes Map, entries in insertion order                   *)
(* jobs       every job added to the queue, indexed by job id, with its    *)
(*            queue state and the position of its handler                  *)
(* wait       the queue's wait list, oldest first                          *)
(* calls      every relay invocation, indexed by the payload id it drew,   *)
(*            with its locals and (history) the table it was called on     *)
(* posts      the httpClient.post calls made so far                        *)
(* lastAdded  history: per route id, the route last added and not removed  *)
(* touched    history: the (payload id, routeId) pairs whose route was     *)
(*            replaced or removed while the pair still had work left       *)
(* ops        number of addRoute / removeRoute calls made                  *)
(* jobCap     number of jobs the run has room for                          *)
(* probe      the last stand-alone query made, with its result             *)
(***************************************************************************)
VARIABLES routes, jobs, wait, calls, posts, lastAdded, touched, ops, jobCap, probe

vars == <<routes, jobs, wait, calls, posts, lastAdded, touched, ops, jobCap, probe>>

(***************************************************************************)
(* Bounds of the model.                                                    *)
(***************************************************************************)
MaxRelays == 2
MaxRouteOps == 2
MaxJobs == 3
MaxChainJobs == 4
MaxPatternLen == 3
MaxArgLen == 2
MaxDataKeys == 2
MaxMapKeys == 2

(***************************************************************************)
(* Program constants.                                                      *)
(***************************************************************************)
Concurrency == 10

(***************************************************************************)
(* JavaScript's undefined and null, as records so that they compare with   *)
(* every other value of the model.                                         *)
(***************************************************************************)
Undefined == [undefined |-> TRUE]
Null == [null |-> TRUE]

RECURSIVE SeqToSet(_)
SeqToSet(s) == IF s = <<>> THEN {} ELSE {Head(s)} \cup SeqToSet(Tail(s))

(***************************************************************************)
(* String.prototype.startsWith / endsWith / split(':').pop() on strings    *)
(* held as sequences of characters.                                        *)
(***************************************************************************)
startsWith(s, p) ==
    /\ Len(p) <= Len(s)
    /\ SubSeq(s, 1, Len(p)) = p

endsWith(s, p) ==
    /\ Len(p) <= Len(s)
    /\ SubSeq(s, Len(s) - Len(p) + 1, Len(s)) = p

RECURSIVE splitPop(_)
splitPop(s) ==
    IF s = <<>> THEN <<>>
    ELSE IF s[Len(s)] = ":" THEN <<>>
    ELSE Append(splitPop(SubSeq(s, 1, Len(s) - 1)), s[Len(s)])

Star == <<"*">>

(***************************************************************************)
(* The routes Map (part_002:17): entries in insertion order, keyed by the  *)
(* route id.  Map.set keeps the position of an existing key, Map.delete    *)
(* removes the entry, Map.get returns undefined for a missing key.         *)
(***************************************************************************)
mapHas(m, key) == \E i \in 1..Len(m) : m[i].id = key

mapGet(m, key) ==
    IF mapHas(m, key)
    THEN m[CHOOSE i \in 1..Len(m) : m[i].id = key]
    ELSE Undefined

mapSet_reinsert(m, route) == Append(SelectSeq(m, LAMBDA r : r.id # route.id), route)

mapSet_push(m, route) == Append(m, route)

mapSet(m, route) ==
    IF mapHas(m, route.id)
    THEN [i \in 1..Len(m) |-> IF m[i].id = route.id THEN route ELSE m[i]]
    ELSE Append(m, route)

mapDelete(m, key) == SelectSeq(m, LAMBDA r : r.id # key)

RECURSIVE constructorRoutes(_)
constructorRoutes(configRoutes) ==
    IF configRoutes = <<>> THEN <<>>
    ELSE mapSet(constructorRoutes(SubSeq(configRoutes, 1, Len(configRoutes) - 1)),
                configRoutes[Len(configRoutes)])

\* getRoutes (part_002:60-62): Array.from(this.routes.values()).
getRoutes(table) == table

(***************************************************************************)
(* getMatchingRoutes (part_002:102-114).                                   *)
(***************************************************************************)
routeMatches_noWildcardSource(route, source, event) ==
    IF ~route.enabled THEN FALSE
    ELSE LET sourceMatch == startsWith(route.sourceEvent, source)
             eventMatch == endsWith(route.sourceEvent, event)
                           \/ splitPop(route.sourceEvent) = Star
         IN sourceMatch /\ eventMatch

routeMatches_segmentExact(route, source, event) ==
    IF ~route.enabled THEN FALSE
    ELSE LET sourceMatch == startsWith(route.sourceEvent, source)
                            \/ route.sourceEvent = Star
             eventMatch == splitPop(route.sourceEvent) = event
                           \/ splitPop(route.sourceEvent) = Star
         IN sourceMatch /\ eventMatch

routeMatches(route, source, event) ==
    IF ~route.enabled THEN FALSE
    ELSE LET sourceMatch == startsWith(route.sourceEvent, source)
                            \/ route.sourceEvent = Star
             eventMatch == endsWith(route.sourceEvent, event)
                           \/ splitPop(route.sourceEvent) = Star
         IN sourceMatch /\ eventMatch

getMatchingRoutes(table, source, event) ==
    SelectSeq(getRoutes(table), LAMBDA route : routeMatches(route, source, event))

(***************************************************************************)
(* applyTransformation (part_002:164-181).  payload.data is Null,          *)
(* Undefined or an object; an object is a record whose field entries holds *)
(* the <<key, value>> pairs in Object.entries order.  A transformation is  *)
(* a record that has the field mapKeys when that key is set; a keyMap is   *)
(* a sequence of <<key, newKey>> pairs.  Object.entries of null or         *)
(* undefined throws a TypeError.                                           *)
(***************************************************************************)
objHas(o, key) == \E i \in 1..Len(o) : o[i][1] = key

objGet(o, key) == o[CHOOSE i \in 1..Len(o) : o[i][1] = key][2]

objSet(o, key, value) ==
    IF objHas(o, key)
    THEN [i \in 1..Len(o) |-> IF o[i][1] = key THEN <<key, value>> ELSE o[i]]
    ELSE Append(o, <<key, value>>)

newKeyOf_ignoresMap(keyMap, key) == key

newKeyOf(keyMap, key) ==
    IF objHas(keyMap, key) /\ objGet(keyMap, key) # "" THEN objGet(keyMap, key) ELSE key

RECURSIVE mapEntries(_, _)
mapEntries(entries, keyMap) ==
    IF entries = <<>> THEN <<>>
    ELSE LET last == entries[Len(entries)]
         IN objSet(mapEntries(SubSeq(entries, 1, Len(entries) - 1), keyMap),
                   newKeyOf(keyMap, last[1]), last[2])

TypeError == [threw |-> "TypeError"]

applyTransformation(payload, transformation) ==
    IF "mapKeys" \in DOMAIN transformation
    THEN IF payload.data \in {Null, Undefined}
         THEN TypeError
         ELSE [payload EXCEPT !.data = [entries |-> mapEntries(payload.data.entries,
                                                              transformation.mapKeys)]]
    ELSE payload

\* The handler's transformation step (part_002:132-135).
transformStage(transformation, payload) ==
    IF transformation # Undefined
    THEN applyTransformation(payload, transformation)
    ELSE payload

(***************************************************************************)
(* Inputs of the model: the routes handed to the constructor and to        *)
(* addRoute, and the arguments of relay.                                   *)
(***************************************************************************)
RouteIds == {"r1", "r2"}

RouteA ==
    [id |-> "r1", sourceEvent |-> Star, destinationUrl |-> "http://one",
     enabled |-> TRUE,
     transformation |-> [mapKeys |-> << <<"a", "b">> >>],
     retryConfig |-> [maxAttempts |-> 3, delayMs |-> 1000]]

RouteAOff == [RouteA EXCEPT !.enabled = FALSE]

RouteB ==
    [id |-> "r2", sourceEvent |-> <<"a", ":", "x">>, destinationUrl |-> "http://two",
     enabled |-> TRUE,
     transformation |-> Undefined,
     retryConfig |-> Undefined]

RouteB2 ==
    [id |-> "r2", sourceEvent |-> <<"a", ":", "*">>, destinationUrl |-> "http://two",
     enabled |-> TRUE,
     transformation |-> [other |-> TRUE],
     retryConfig |-> [maxAttempts |-> 2, delayMs |-> 100]]

RouteSamples == {RouteA, RouteAOff, RouteB, RouteB2}

ConfigSamples == {<<>>, <<RouteA, RouteB>>}

RelayInputs ==
    {[source |-> <<"a">>, event |-> <<"x">>,
      data |-> [entries |-> << <<"a", 1>>, <<"c", 2>> >>], headers |-> Undefined],
     [source |-> <<"b">>, event |-> <<"y">>,
      data |-> Null, headers |-> [entries |-> << <<"h", "v">> >>]]}

(***************************************************************************)
(* The queue (BullMQ): jobs holds every job ever added, indexed by its id; *)
(* wait is the wait list, oldest first.  Job data goes through JSON, which *)
(* keeps null, drops undefined fields (read back as undefined) and keeps   *)
(* the entries of objects in order.  Besides the job's data and queue      *)
(* state a job records: pc and route, the position of its handler and the  *)
(* route the handler read; reason, the error the handler threw; response,  *)
(* how its post ended; parent, the job whose handler added it; and         *)
(* (history) registered, whether its routeId was in the table when it was  *)
(* added.                                                                  *)
(***************************************************************************)
NoJob == 0

queueAdd(q, data, delay, parent) ==
    Append(q, [id |-> Len(q) + 1,
               routeId |-> data.routeId,
               payload |-> data.payload,
               attemptNumber |-> data.attemptNumber,
               delay |-> delay,
               state |-> IF delay > 0 THEN "delayed" ELSE "waiting",
               pc |-> "idle",
               route |-> Undefined,
               reason |-> "none",
               response |-> "none",
               registered |-> mapHas(routes, data.routeId),
               parent |-> parent])

waitAdd(w, q, delay) == IF delay > 0 THEN w ELSE Append(w, Len(q) + 1)

activeCount == Cardinality({j \in 1..Len(jobs) : jobs[j].state = "active"})

\* getStats (part_002:186-194): the queue's counts, read from its state.
getStats(q) ==
    [waiting |-> Cardinality({j \in 1..Len(q) : q[j].state = "waiting"}),
     active |-> Cardinality({j \in 1..Len(q) : q[j].state = "active"}),
     completed |-> Cardinality({j \in 1..Len(q) : q[j].state = "completed"})]

(***************************************************************************)
(* A chain is a (payload id, routeId) pair; it is alive while relay still  *)
(* has to enqueue its first job or one of its jobs is not yet completed    *)
(* or failed.                                                              *)
(***************************************************************************)
matchedIds(call) == {call.matching[i].id : i \in 1..Len(call.matching)}

chainJobs(c, rid) ==
    {j \in 1..Len(jobs) : jobs[j].payload.id = c /\ jobs[j].routeId = rid}

chainAlive(c, rid) ==
    /\ rid \in matchedIds(calls[c])
    /\ \/ calls[c].pc # "returned"
       \/ \E j \in chainJobs(c, rid) : jobs[j].state \notin {"completed", "failed"}

touch(rid) ==
    touched \cup {<<c, rid>> : c \in {k \in 1..Len(calls) : chainAlive(k, rid)}}

(***************************************************************************)
(* addRoute, removeRoute (part_002:46-55).                                 *)
(***************************************************************************)
addRoute(route) ==
    /\ ops < MaxRouteOps
    /\ routes' = mapSet(routes, route)
    /\ lastAdded' = [lastAdded EXCEPT ![route.id] = route]
    /\ touched' = IF mapGet(routes, route.id) = route THEN touched ELSE touch(route.id)
    /\ ops' = ops + 1
    /\ UNCHANGED <<jobs, wait, calls, posts, jobCap, probe>>

removeRoute(routeId) ==
    /\ ops < MaxRouteOps
    /\ routes' = mapDelete(routes, routeId)
    /\ lastAdded' = [lastAdded EXCEPT ![routeId] = Undefined]
    /\ touched' = IF mapHas(routes, routeId) THEN touch(routeId) ELSE touched
    /\ ops' = ops + 1
    /\ UNCHANGED <<jobs, wait, calls, posts, jobCap, probe>>

(***************************************************************************)
(* relay (part_002:67-97).  relay_start runs the call up to its first      *)
(* await: it builds the payload, takes the matching routes and either      *)
(* returns [] or issues the first queue.add.  relay_resume runs from one   *)
(* await to the next: it pushes the id of the job just added and issues    *)
(* the next queue.add, or returns jobIds.                                  *)
(***************************************************************************)
relayJob_attemptZero(route, payload) ==
    [routeId |-> route.id, payload |-> payload, attemptNumber |-> 0]

relayJob(route, payload) ==
    [routeId |-> route.id, payload |-> payload, attemptNumber |-> 1]

relay_start(source, event, data, headers) ==
    LET payload == [id |-> Len(calls) + 1,
                    source |-> source,
                    event |-> event,
                    timestamp |-> Len(calls) + 1,
                    data |-> data,
                    headers |-> headers]
        matchingRoutes == getMatchingRoutes(routes, source, event)
        call == [payload |-> payload, matching |-> matchingRoutes, table |-> routes,
                 added |-> 0, lastJob |-> NoJob, jobIds |-> <<>>, pc |-> "returned"]
    IN /\ Len(calls) < MaxRelays
       /\ IF Len(matchingRoutes) = 0
          THEN /\ calls' = Append(calls, call)
               /\ UNCHANGED <<jobs, wait>>
          ELSE /\ Len(jobs) < jobCap
               /\ jobs' = queueAdd(jobs, relayJob(matchingRoutes[1], payload), 0, NoJob)
               /\ wait' = waitAdd(wait, jobs, 0)
               /\ calls' = Append(calls, [call EXCEPT !.added = 1,
                                                      !.lastJob = Len(jobs) + 1,
                                                      !.pc = "adding"])
       /\ UNCHANGED <<routes, posts, lastAdded, touched, ops, jobCap, probe>>

relay_resume_delivers(c) ==
    LET call == calls[c]
        jobIds == Append(call.jobIds, call.lastJob)
    IN /\ call.pc = "adding"
       /\ calls' = [calls EXCEPT ![c].jobIds = jobIds,
                                 ![c].lastJob = NoJob,
                                 ![c].added = Len(call.matching),
                                 ![c].pc = "returned"]
       /\ posts' = Append(posts, [jobId |-> call.lastJob,
                                  url |-> call.matching[call.added].destinationUrl,
                                  body |-> call.payload])
       /\ UNCHANGED <<routes, jobs, wait, lastAdded, touched, ops, jobCap, probe>>

relay_resume(c) ==
    LET call == calls[c]
        jobIds == Append(call.jobIds, call.lastJob)
    IN /\ call.pc = "adding"
       /\ IF call.added < Len(call.matching)
          THEN /\ Len(jobs) < jobCap
               /\ jobs' = queueAdd(jobs, relayJob(call.matching[call.added + 1],
                                                  call.payload), 0, NoJob)
               /\ wait' = waitAdd(wait, jobs, 0)
               /\ calls' = [calls EXCEPT ![c].jobIds = jobIds,
                                         ![c].added = call.added + 1,
                                         ![c].lastJob = Len(jobs) + 1]
          ELSE /\ calls' = [calls EXCEPT ![c].jobIds = jobIds,
                                         ![c].lastJob = NoJob,
                                         ![c].pc = "returned"]
               /\ UNCHANGED <<jobs, wait>>
       /\ UNCHANGED <<routes, posts, lastAdded, touched, ops, jobCap, probe>>

(***************************************************************************)
(* The worker handler (part_002:119-156).                                  *)
(***************************************************************************)
RECURSIVE pow2(_)
pow2(n) == IF n <= 0 THEN 1 ELSE 2 * pow2(n - 1)

retryDelay_exponentOff(retryConfig, attemptNumber) ==
    retryConfig.delayMs * pow2(attemptNumber)

retryDelay(retryConfig, attemptNumber) ==
    retryConfig.delayMs * pow2(attemptNumber - 1)

canRetry_unlimited(route, attemptNumber) ==
    route.retryConfig # Undefined

canRetry_offByOne(route, attemptNumber) ==
    /\ route.retryConfig # Undefined
    /\ attemptNumber <= route.retryConfig.maxAttempts

canRetry(route, attemptNumber) ==
    /\ route.retryConfig # Undefined
    /\ attemptNumber < route.retryConfig.maxAttempts

\* The catch block (part_002:141-153) of job j, whose handler read `route`
\* and is in queue state q: either it issues queue.add for the retry and
\* awaits it, or it rethrows at once and the job is failed.
retryJob_sameAttempt(job) ==
    [routeId |-> job.routeId, payload |-> job.payload, attemptNumber |-> job.attemptNumber]

retryJob_transformed(job) ==
    [routeId |-> job.routeId,
     payload |-> transformStage(job.route.transformation, job.payload),
     attemptNumber |-> job.attemptNumber + 1]

\* The data of the retry job (part_002:145-149).
retryJob(job) ==
    [routeId |-> job.routeId, payload |-> job.payload, attemptNumber |-> job.attemptNumber + 1]

catchBlock(q, w, j, route, reason) ==
    IF canRetry(route, q[j].attemptNumber)
    THEN LET delay == retryDelay(route.retryConfig, q[j].attemptNumber)
         IN /\ Len(q) < jobCap
            /\ jobs' = queueAdd([q EXCEPT ![j].pc = "adding", ![j].reason = reason],
                                retryJob(q[j]), delay, j)
            /\ wait' = waitAdd(w, q, delay)
    ELSE /\ jobs' = [q EXCEPT ![j].state = "failed", ![j].pc = "idle", ![j].reason = reason]
         /\ wait' = w

\* The handler throws before its try block (part_002:126-128): the job is failed.
routeNotFound_returns(q, j) ==
    [q EXCEPT ![j].state = "completed"]

routeNotFound_retries(q, j) ==
    queueAdd([q EXCEPT ![j].state = "failed", ![j].reason = "RouteNotFound"],
             retryJob(q[j]), 0, j)

routeNotFound(q, j) ==
    [q EXCEPT ![j].state = "failed", ![j].reason = "RouteNotFound"]

\* applyTransformation throws inside the try block (part_002:130-141): the
\* catch block handles the error as it handles a rejected post.
transformFailed_uncaught(q, w, j, route) ==
    /\ jobs' = [q EXCEPT ![j].state = "failed", ![j].reason = "TypeError"]
    /\ wait' = w

transformFailed(q, w, j, route) == catchBlock(q, w, j, route, "TypeError")

\* The queue hands the oldest waiting job to the handler, which runs to its
\* first await (the post, or the retry's queue.add) or to its end.
worker_pickup ==
    /\ wait # <<>>
    /\ activeCount < Concurrency
    /\ LET j == Head(wait)
           job == jobs[j]
           route == mapGet(routes, job.routeId)
           q == [jobs EXCEPT ![j].state = "active", ![j].route = route]
           transformedPayload == transformStage(route.transformation, job.payload)
       IN IF route = Undefined
          THEN /\ jobs' = routeNotFound(q, j)
               /\ wait' = Tail(wait)
               /\ posts' = posts
          ELSE IF transformedPayload = TypeError
          THEN /\ transformFailed(q, Tail(wait), j, route)
               /\ posts' = posts
          ELSE /\ jobs' = [q EXCEPT ![j].pc = "posting"]
               /\ wait' = Tail(wait)
               /\ posts' = Append(posts, [jobId |-> j,
                                          url |-> route.destinationUrl,
                                          body |-> transformedPayload])
    /\ UNCHANGED <<routes, calls, lastAdded, touched, ops, jobCap, probe>>

\* httpClient.post resolves: the handler ends normally.
worker_postOk_finally(j) ==
    /\ jobs[j].state = "active"
    /\ jobs[j].pc = "posting"
    /\ IF canRetry(jobs[j].route, jobs[j].attemptNumber) /\ Len(jobs) < jobCap
       THEN /\ jobs' = queueAdd([jobs EXCEPT ![j].state = "completed", ![j].pc = "idle",
                                             ![j].response = "ok"],
                                retryJob(jobs[j]),
                                retryDelay(jobs[j].route.retryConfig, jobs[j].attemptNumber), j)
            /\ wait' = wait
       ELSE /\ jobs' = [jobs EXCEPT ![j].state = "completed", ![j].pc = "idle",
                                    ![j].response = "ok"]
            /\ wait' = wait
    /\ UNCHANGED <<routes, calls, posts, lastAdded, touched, ops, jobCap, probe>>

worker_postOk(j) ==
    /\ jobs[j].state = "active"
    /\ jobs[j].pc = "posting"
    /\ jobs' = [jobs EXCEPT ![j].state = "completed", ![j].pc = "idle",
                            ![j].response = "ok"]
    /\ UNCHANGED <<routes, wait, calls, posts, lastAdded, touched, ops, jobCap, probe>>

\* httpClient.post rejects (network error, timeout, non-2xx status).
worker_postFail(j) ==
    /\ jobs[j].state = "active"
    /\ jobs[j].pc = "posting"
    /\ catchBlock([jobs EXCEPT ![j].response = "error"], wait, j, jobs[j].route,
                  "DeliveryError")
    /\ UNCHANGED <<routes, calls, posts, lastAdded, touched, ops, jobCap, probe>>

\* The retry's queue.add has resolved: the handler rethrows the error.
worker_throw_swallows(j) ==
    /\ jobs[j].state = "active"
    /\ jobs[j].pc = "adding"
    /\ jobs' = [jobs EXCEPT ![j].state = "completed", ![j].pc = "idle"]
    /\ UNCHANGED <<routes, wait, calls, posts, lastAdded, touched, ops, jobCap, probe>>

worker_throw_disablesRoute(j) ==
    /\ jobs[j].state = "active"
    /\ jobs[j].pc = "adding"
    /\ jobs' = [jobs EXCEPT ![j].state = "failed", ![j].pc = "idle"]
    /\ routes' = IF mapHas(routes, jobs[j].routeId)
                 THEN mapSet(routes, [mapGet(routes, jobs[j].routeId) EXCEPT !.enabled = FALSE])
                 ELSE routes
    /\ UNCHANGED <<wait, calls, posts, lastAdded, touched, ops, jobCap, probe>>

worker_throw(j) ==
    /\ jobs[j].state = "active"
    /\ jobs[j].pc = "adding"
    /\ jobs' = [jobs EXCEPT ![j].state = "failed", ![j].pc = "idle"]
    /\ UNCHANGED <<routes, wait, calls, posts, lastAdded, touched, ops, jobCap, probe>>

\* The delay of a delayed job has elapsed: the queue moves it to the wait list.
queue_promote(j) ==
    /\ jobs[j].state = "delayed"
    /\ jobs' = [jobs EXCEPT ![j].state = "waiting"]
    /\ wait' = Append(wait, j)
    /\ UNCHANGED <<routes, calls, posts, lastAdded, touched, ops, jobCap, probe>>

(***************************************************************************)
(* The service after construction (part_002:20-41) with one of the sample  *)
(* configurations, its worker started (part_001:55-57).                    *)
(***************************************************************************)
NoProbe == [none |-> TRUE]

\* For each id, the route most recently added under it (history variable).
lastOf(added) ==
    [id \in RouteIds |->
        LET at == {i \in 1..Len(added) : added[i].id = id}
        IN IF at = {} THEN Undefined
           ELSE added[CHOOSE i \in at : \A k \in at : k <= i]]

Init ==
    /\ \E configRoutes \in ConfigSamples :
         /\ routes = constructorRoutes(configRoutes)
         /\ lastAdded = lastOf(configRoutes)
    /\ jobs = <<>>
    /\ wait = <<>>
    /\ calls = <<>>
    /\ posts = <<>>
    /\ touched = {}
    /\ ops = 0
    /\ jobCap = MaxJobs
    /\ probe = NoProbe

Next ==
    \/ \E route \in RouteSamples : addRoute(route)
    \/ \E routeId \in RouteIds : removeRoute(routeId)
    \/ \E in \in RelayInputs : relay_start(in.source, in.event, in.data, in.headers)
    \/ \E c \in 1..Len(calls) : relay_resume(c)
    \/ worker_pickup
    \/ \E j \in 1..Len(jobs) : worker_postOk(j)
    \/ \E j \in 1..Len(jobs) : worker_postFail(j)
    \/ \E j \in 1..Len(jobs) : worker_throw(j)
    \/ \E j \in 1..Len(jobs) : queue_promote(j)

Spec == Init /\ [][Next]_vars

(***************************************************************************)
(* The same service started with a single always-matching route that       *)
(* allows long retry chains, and left with that route: the relay calls,    *)
(* the worker and the queue run as in Spec, with room for MaxChainJobs     *)
(* jobs.                                                                   *)
(***************************************************************************)
RouteLong ==
    [id |-> "r1", sourceEvent |-> Star, destinationUrl |-> "http://one",
     enabled |-> TRUE,
     transformation |-> Undefined,
     retryConfig |-> [maxAttempts |-> 4, delayMs |-> 1000]]

RouteLongest == [RouteLong EXCEPT !.retryConfig = [maxAttempts |-> 10, delayMs |-> 100]]

RetryRouteSamples == {RouteLong, RouteLongest}

InitRetry ==
    /\ \E route \in RetryRouteSamples :
         /\ routes = constructorRoutes(<<route>>)
         /\ lastAdded = lastOf(<<route>>)
    /\ jobs = <<>>
    /\ wait = <<>>
    /\ calls = <<>>
    /\ posts = <<>>
    /\ touched = {}
    /\ ops = 0
    /\ jobCap = MaxChainJobs
    /\ probe = NoProbe

NextRetry ==
    \/ \E in \in RelayInputs : relay_start(in.source, in.event, in.data, in.headers)
    \/ \E c \in 1..Len(calls) : relay_resume(c)
    \/ worker_pickup
    \/ \E j \in 1..Len(jobs) : worker_postOk(j)
    \/ \E j \in 1..Len(jobs) : worker_postFail(j)
    \/ \E j \in 1..Len(jobs) : worker_throw(j)
    \/ \E j \in 1..Len(jobs) : queue_promote(j)

SpecRetry == InitRetry /\ [][NextRetry]_vars

(***************************************************************************)
(* The matching query on its own: a service constructed with one route     *)
(* whose sourceEvent is any non-empty string over Chars, queried with any  *)
(* source and event.                                                       *)
(***************************************************************************)
Chars == {"a", "x", ":", "*"}

StringsUpTo(n) == UNION {[1..k -> Chars] : k \in 0..n}

PatternRoutes ==
    {[RouteB EXCEPT !.id = "r1", !.sourceEvent = pattern, !.enabled = enabled] :
        pattern \in StringsUpTo(MaxPatternLen) \ {<<>>}, enabled \in BOOLEAN}

InitMatch ==
    /\ \E route \in PatternRoutes :
         /\ routes = constructorRoutes(<<route>>)
         /\ lastAdded = lastOf(<<route>>)
    /\ jobs = <<>>
    /\ wait = <<>>
    /\ calls = <<>>
    /\ posts = <<>>
    /\ touched = {}
    /\ ops = 0
    /\ jobCap = MaxJobs
    /\ probe = NoProbe

matchQuery(source, event) ==
    /\ probe = NoProbe
    /\ probe' = [kind |-> "match", source |-> source, event |-> event,
                 result |-> getMatchingRoutes(routes, source, event)]
    /\ UNCHANGED <<routes, jobs, wait, calls, posts, lastAdded, touched, ops, jobCap>>

NextMatch ==
    /\ probe = NoProbe
    /\ \E source, event \in StringsUpTo(MaxArgLen) : matchQuery(source, event)

SpecMatch == InitMatch /\ [][NextMatch]_vars

(***************************************************************************)
(* The transformation step on its own, applied to any payload whose data   *)
(* is null, undefined or an object of up to MaxDataKeys keys, under any    *)
(* transformation: absent, without mapKeys, or with a mapKeys table of up  *)
(* to MaxMapKeys entries.                                                  *)
(***************************************************************************)
Keys == {"a", "b", "c"}
Values == {1, 2}

distinctKeys(o) == \A i, k \in 1..Len(o) : o[i][1] = o[k][1] => i = k

Objects(n, vals) ==
    {o \in UNION {[1..k -> Keys \X vals] : k \in 0..n} : distinctKeys(o)}

DataSamples == {Null, Undefined} \cup {[entries |-> o] : o \in Objects(MaxDataKeys, Values)}

TransformationSamples ==
    {Undefined, [other |-> TRUE]}
        \cup {[mapKeys |-> km] : km \in Objects(MaxMapKeys, Keys \cup {""})}

PayloadSamples ==
    {[id |-> 1, source |-> <<"a">>, event |-> <<"x">>, timestamp |-> 1,
      data |-> data, headers |-> headers] :
        data \in DataSamples,
        headers \in {Undefined, [entries |-> << <<"h", "v">> >>]}}

InitTransform ==
    /\ routes = <<>>
    /\ lastAdded = lastOf(<<>>)
    /\ jobs = <<>>
    /\ wait = <<>>
    /\ calls = <<>>
    /\ posts = <<>>
    /\ touched = {}
    /\ ops = 0
    /\ jobCap = MaxJobs
    /\ probe = NoProbe

transformQuery(payload, transformation) ==
    /\ probe = NoProbe
    /\ probe' = [kind |-> "transform", payload |-> payload,
                 transformation |-> transformation,
                 result |-> transformStage(transformation, payload)]
    /\ UNCHANGED <<routes, jobs, wait, calls, posts, lastAdded, touched, ops, jobCap>>

NextTransform ==
    /\ probe = NoProbe
    /\ \E payload \in PayloadSamples, transformation \in TransformationSamples :
          transformQuery(payload, transformation)

SpecTransform == InitTransform /\ [][NextTransform]_vars

(***************************************************************************)
(* Notions shared by the properties below.                                 *)
(***************************************************************************)
Chains == {<<c, rid>> \in (1..Len(calls)) \X RouteIds : rid \in matchedIds(calls[c])}

pickedUp(j) == jobs[j].state \notin {"waiting", "delayed"}

postsOf(j) == {i \in 1..Len(posts) : posts[i].jobId = j}

\* The route of a chain as the relay call saw it, and the attempts it allows.
chainRoute(c, rid) == mapGet(calls[c].table, rid)

allowedAttempts(route) ==
    IF route.retryConfig = Undefined THEN 1 ELSE route.retryConfig.maxAttempts

transformThrows(route, payload) ==
    /\ route.transformation # Undefined
    /\ "mapKeys" \in DOMAIN route.transformation
    /\ payload.data \in {Null, Undefined}

\* The chain's route has stayed registered and unchanged since the relay call.
stable(c, rid) == <<c, rid>> \notin touched

(***************************************************************************)
(* C1. Attempt exhaustion.  For a chain whose route stays registered and   *)
(* unchanged, the jobs carry attempt numbers 1..k with k <= N, where N is  *)
(* the route's maxAttempts (1 without a retryConfig); every job handed to  *)
(* the worker makes one delivery call, unless the transformation throws,   *)
(* which counts as a failed attempt; and once no attempt has succeeded and *)
(* nothing of the chain is left to run, exactly N attempts were made and   *)
(* every one of them is failed.  An attempt is a job handled by the worker *)
(* (the glossary's "one scheduled delivery attempt").                      *)
(***************************************************************************)
C1_AttemptExhaustion ==
    \A ch \in Chains :
        LET c == ch[1]
            rid == ch[2]
            N == allowedAttempts(chainRoute(c, rid))
            js == chainJobs(c, rid)
        IN stable(c, rid) =>
            /\ Cardinality(js) <= N
            /\ {jobs[j].attemptNumber : j \in js} = 1..Cardinality(js)
            /\ \A j \in js :
                  Cardinality(postsOf(j)) =
                     IF pickedUp(j) /\ ~transformThrows(chainRoute(c, rid), jobs[j].payload)
                     THEN 1 ELSE 0
            /\ (~chainAlive(c, rid) /\ \A j \in js : jobs[j].state # "completed") =>
                  /\ Cardinality(js) = N
                  /\ \A j \in js : jobs[j].state = "failed"
                                     /\ jobs[j].reason \in {"DeliveryError", "TypeError"}

\* A chain on an unchanged route with maxAttempts = 3 has failed three
\* deliveries and is finished.
C1_Witness ==
    \E ch \in Chains :
        /\ stable(ch[1], ch[2])
        /\ allowedAttempts(chainRoute(ch[1], ch[2])) = 3
        /\ ~chainAlive(ch[1], ch[2])
        /\ Cardinality(chainJobs(ch[1], ch[2])) = 3
        /\ \A j \in chainJobs(ch[1], ch[2]) :
              jobs[j].state = "failed" /\ Cardinality(postsOf(j)) = 1

(***************************************************************************)
(* C2. Retry delay.  Every retry job was enqueued with delay exactly       *)
(* d * 2^(n-1), where n is the attemptNumber of the failed job and d the   *)
(* delayMs of the route its handler read; for d = 1000 the delays after    *)
(* attempts 1, 2 and 3 are 1000, 2000 and 4000.  No jitter, no cap.        *)
(***************************************************************************)
C2_RetryDelay ==
    \A j \in 1..Len(jobs) :
        jobs[j].parent # NoJob =>
            LET n == jobs[jobs[j].parent].attemptNumber
                d == jobs[jobs[j].parent].route.retryConfig.delayMs
            IN /\ jobs[j].delay = d * (2 ^ (n - 1))
               /\ (d = 1000 /\ n = 1) => jobs[j].delay = 1000
               /\ (d = 1000 /\ n = 2) => jobs[j].delay = 2000
               /\ (d = 1000 /\ n = 3) => jobs[j].delay = 4000

\* One chain on a route with delayMs = 1000 has scheduled its retries with
\* delays 1000, 2000 and 4000.
C2_Witness ==
    \E j1, j2, j3 \in 1..Len(jobs) :
        /\ jobs[j1].delay = 1000 /\ jobs[j1].attemptNumber = 2
        /\ jobs[j2].delay = 2000 /\ jobs[j2].attemptNumber = 3 /\ jobs[j2].parent = j1
        /\ jobs[j3].delay = 4000 /\ jobs[j3].attemptNumber = 4 /\ jobs[j3].parent = j2
        /\ jobs[j2].route.retryConfig.delayMs = 1000

(***************************************************************************)
(* C3. Disabled routes get no jobs.  No step, of relay or of the worker,   *)
(* enqueues a job whose routeId names a route that is in the table with    *)
(* enabled = false at that moment.                                         *)
(***************************************************************************)
C3_NoJobForDisabledRoute ==
    [][\A j \in (Len(jobs) + 1)..Len(jobs') :
          LET route == mapGet(routes, jobs'[j].routeId)
          IN route # Undefined => route.enabled]_vars

(***************************************************************************)
(* C4. Wildcard route.  Every route that is in the table, enabled, with    *)
(* sourceEvent = "*" when a relay call runs is among the call's matches,   *)
(* whatever source and event are, and once the call has returned a job     *)
(* enqueued by that call for the route is among its jobIds.                *)
(***************************************************************************)
C4_WildcardRoute ==
    \A c \in 1..Len(calls) :
        \A i \in 1..Len(calls[c].table) :
            LET route == calls[c].table[i]
            IN (route.enabled /\ route.sourceEvent = Star) =>
                /\ route.id \in matchedIds(calls[c])
                /\ calls[c].pc = "returned" =>
                      \E k \in 1..Len(calls[c].jobIds) :
                          LET job == jobs[calls[c].jobIds[k]]
                          IN /\ job.routeId = route.id
                             /\ job.payload = calls[c].payload
                             /\ job.parent = NoJob

\* relay("b", "y", ...) has returned with a job for the "*" route, which
\* names neither "b" nor "y".
C4_Witness ==
    \E c \in 1..Len(calls) :
        /\ calls[c].pc = "returned"
        /\ calls[c].payload.source = <<"b">>
        /\ calls[c].payload.event = <<"y">>
        /\ \E k \in 1..Len(calls[c].jobIds) :
              LET route == mapGet(calls[c].table, jobs[calls[c].jobIds[k]].routeId)
              IN route.sourceEvent = Star /\ route.enabled

(***************************************************************************)
(* C5. Route deleted before pickup.  A job picked up while its routeId is  *)
(* not in the table is failed in that step with reason RouteNotFound,      *)
(* with no delivery call and no job enqueued; such a job never changes     *)
(* again, is never delivered and never gets a retry job.                   *)
(***************************************************************************)
C5_RouteDeletedBeforePickup ==
    [][\A j \in 1..Len(jobs) :
          /\ ( /\ jobs[j].state = "waiting"
               /\ jobs'[j].state # "waiting"
               /\ ~mapHas(routes, jobs[j].routeId) ) =>
                  /\ jobs'[j].state = "failed"
                  /\ jobs'[j].reason = "RouteNotFound"
                  /\ posts' = posts
                  /\ Len(jobs') = Len(jobs)
          /\ jobs[j].reason = "RouteNotFound" =>
                  /\ jobs'[j] = jobs[j]
                  /\ \A i \in 1..Len(posts') : posts'[i].jobId # j
                  /\ \A k \in 1..Len(jobs') : jobs'[k].parent # j]_vars

\* A first attempt on a route that allowed retries has failed with
\* RouteNotFound, and no further job of its chain exists.
C5_Witness ==
    \E j \in 1..Len(jobs) :
        /\ jobs[j].state = "failed"
        /\ jobs[j].reason = "RouteNotFound"
        /\ chainRoute(jobs[j].payload.id, jobs[j].routeId).retryConfig # Undefined
        /\ jobs[j].attemptNumber <
              chainRoute(jobs[j].payload.id, jobs[j].routeId).retryConfig.maxAttempts
        /\ Cardinality(chainJobs(jobs[j].payload.id, jobs[j].routeId)) = 1
        /\ postsOf(j) = {}

(***************************************************************************)
(* C6. One job per match.  The jobs a relay call enqueues are, in order,   *)
(* one for each route matching (source, event) in the table at the time    *)
(* of the call, each with attemptNumber 1, delay 0 and the call's payload; *)
(* the returned jobIds are the ids of these jobs in route-match order; a   *)
(* call with no match returns the empty sequence and enqueues nothing.     *)
(***************************************************************************)
relayJobsOf(c) == {j \in 1..Len(jobs) : jobs[j].payload.id = c /\ jobs[j].parent = NoJob}

C6_OneJobPerMatch ==
    \A c \in 1..Len(calls) :
        LET call == calls[c]
            M == getMatchingRoutes(call.table, call.payload.source, call.payload.event)
            ids == IF call.pc = "returned" THEN call.jobIds
                   ELSE Append(call.jobIds, call.lastJob)
        IN /\ Len(ids) <= Len(M)
           /\ call.pc = "returned" => Len(ids) = Len(M)
           /\ relayJobsOf(c) = {ids[i] : i \in 1..Len(ids)}
           /\ \A i \in 1..Len(ids) :
                 /\ \A k \in 1..Len(ids) : ids[i] = ids[k] => i = k
                 /\ jobs[ids[i]].routeId = M[i].id
                 /\ jobs[ids[i]].attemptNumber = 1
                 /\ jobs[ids[i]].delay = 0
                 /\ jobs[ids[i]].payload = call.payload
           /\ call.payload.id = c

\* One call has returned two jobIds for its two matching routes, another
\* has returned the empty sequence from an empty table.
C6_Witness ==
    \E c, e \in 1..Len(calls) :
        /\ calls[c].pc = "returned"
        /\ Len(calls[c].jobIds) = 2
        /\ Len(calls[c].matching) = 2
        /\ calls[e].pc = "returned"
        /\ calls[e].table = <<>>
        /\ calls[e].jobIds = <<>>

(***************************************************************************)
(* C7. Delivery is deferred.  No step of a relay call makes a delivery     *)
(* call; a delivery call is made only in the step in which the queue hands *)
(* the oldest waiting job to the worker, and it is made for that job.      *)
(***************************************************************************)
C7_DeliveryDeferred ==
    [][/\ calls' # calls => posts' = posts
       /\ posts' # posts =>
             /\ wait # <<>>
             /\ jobs[Head(wait)].state = "waiting"
             /\ jobs'[Head(wait)].state = "active"
             /\ Len(posts') = Len(posts) + 1
             /\ SubSeq(posts', 1, Len(posts)) = posts
             /\ posts'[Len(posts')].jobId = Head(wait)]_vars

\* A call has returned its jobIds while none of its jobs has been handed to
\* the worker, and the delivery for an earlier call's job is in flight.
C7_Witness ==
    \E c, e \in 1..Len(calls) :
        /\ calls[c].pc = "returned"
        /\ calls[c].jobIds # <<>>
        /\ \A k \in 1..Len(calls[c].jobIds) :
              /\ jobs[calls[c].jobIds[k]].state = "waiting"
              /\ postsOf(calls[c].jobIds[k]) = {}
        /\ \E j \in relayJobsOf(e) : jobs[j].pc = "posting" /\ postsOf(j) # {}

(***************************************************************************)
(* C8. Matching rule.  An enabled route is returned by the matching query  *)
(* for (source, event) exactly when (a) its sourceEvent is "*" or has      *)
(* source as a prefix and (b) the part of sourceEvent after its last ':'   *)
(* (all of it when it has none) is "*" or sourceEvent has event as a       *)
(* suffix.  A disabled route is never returned.                            *)
(***************************************************************************)
hasPrefix(s, p) == \E k \in 0..Len(s) : SubSeq(s, 1, k) = p

hasSuffix(s, p) == \E k \in 1..(Len(s) + 1) : SubSeq(s, k, Len(s)) = p

afterLastColon(s) ==
    LET colons == {i \in 1..Len(s) : s[i] = ":"}
    IN IF colons = {} THEN s
       ELSE SubSeq(s, (CHOOSE i \in colons : \A k \in colons : k <= i) + 1, Len(s))

matchRule(sourceEvent, source, event) ==
    /\ sourceEvent = <<"*">> \/ hasPrefix(sourceEvent, source)
    /\ afterLastColon(sourceEvent) = <<"*">> \/ hasSuffix(sourceEvent, event)

isMatchProbe == probe # NoProbe /\ probe.kind = "match"

C8_MatchingRule ==
    isMatchProbe =>
        \A i \in 1..Len(routes) :
            LET returned == \E k \in 1..Len(probe.result) : probe.result[k] = routes[i]
            IN IF routes[i].enabled
               THEN returned <=> matchRule(routes[i].sourceEvent, probe.source, probe.event)
               ELSE ~returned

\* The query ("a", "x") returns a route whose sourceEvent is "aax": it has
\* no ':' and is matched by prefix and suffix alone.
C8_Witness ==
    /\ isMatchProbe
    /\ probe.source = <<"a">>
    /\ probe.event = <<"x">>
    /\ Len(probe.result) = 1
    /\ probe.result[1].sourceEvent = <<"a", "a", "x">>

(***************************************************************************)
(* C9. Key remapping, as first stated.  For every payload and mapKeys      *)
(* table the transformed data holds each input key absent from mapKeys     *)
(* with its value, and for each input key k in mapKeys the value of k      *)
(* under mapKeys[k]; the other fields are unmodified; without a            *)
(* transformation or without mapKeys the result equals the input.  Stated  *)
(* here for the payloads whose data is an object and the tables whose new  *)
(* names are non-empty, which the statement covers in any reading.         *)
(***************************************************************************)
isTransformProbe == probe # NoProbe /\ probe.kind = "transform"

hasMapKeys(transformation) ==
    transformation # Undefined /\ "mapKeys" \in DOMAIN transformation

entriesOf(data) == IF data \in {Null, Undefined} THEN <<>> ELSE data.entries

holds(entries, key, value) == \E i \in 1..Len(entries) : entries[i] = <<key, value>>

sameEnvelope(p, r) ==
    /\ r.id = p.id
    /\ r.source = p.source
    /\ r.event = p.event
    /\ r.timestamp = p.timestamp
    /\ r.headers = p.headers

sentTo(keyMap, key) ==
    IF \E i \in 1..Len(keyMap) : keyMap[i][1] = key /\ keyMap[i][2] # ""
    THEN (CHOOSE pair \in SeqToSet(keyMap) : pair[1] = key)[2]
    ELSE key

C10_RouteTableUpsert ==
    /\ \A i, k \in 1..Len(routes) : routes[i].id = routes[k].id => i = k
    /\ \A id \in RouteIds :
          IF lastAdded[id] = Undefined
          THEN \A i \in 1..Len(routes) : routes[i].id # id
          ELSE \E i \in 1..Len(routes) : routes[i] = lastAdded[id]
    /\ \A route \in RouteSamples :
          mapSet(mapSet(routes, route), route) = mapSet(routes, route)
    /\ \A id \in RouteIds :
          (\A i \in 1..Len(routes) : routes[i].id # id) => mapDelete(routes, id) = routes

\* After two route operations one id has been replaced and the other
\* removed.
C10_Witness ==
    /\ ops = 2
    /\ routes = <<RouteB2>>
    /\ lastAdded["r1"] = Undefined

(***************************************************************************)
(* C11.  Jobs for a removed route.                                         *)
(***************************************************************************)

\* The producers of a job whose route id was absent from the table when the
\* job was added: a relay call resumed after an await, which had matched the
\* id before; or a handler adding a retry, which had read the route before.
lateFromRelay(j) ==
    /\ jobs[j].parent = NoJob
    /\ jobs[j].payload.id \in 1..Len(calls)
    /\ mapHas(calls[jobs[j].payload.id].table, jobs[j].routeId)
    /\ jobs[j].routeId \in matchedIds(calls[jobs[j].payload.id])
    /\ j # calls[jobs[j].payload.id].jobIds[1]

lateFromWorker(j) ==
    /\ jobs[j].parent # NoJob
    /\ jobs[jobs[j].parent].route # Undefined
    /\ jobs[jobs[j].parent].route.id = jobs[j].routeId
    /\ jobs[jobs[j].parent].reason \in {"DeliveryError", "TypeError"}

\* C11 as stated: no job is added for a route id while the id is absent from
\* the table, whatever relay calls and handlers are in progress.
C11_NoJobAfterRemovalAsStated ==
    \A j \in 1..Len(jobs) : jobs[j].registered

\* C11 (amended): a job added for a route id while the id is absent comes
\* only from a relay call that matched the id while it was registered or
\* from a handler that read the route while it was registered; and a job
\* handed to the handler while its id is absent fails with RouteNotFound,
\* posts nothing and adds no retry.
C11_NoJobAfterRemoval ==
    \A j \in 1..Len(jobs) :
        /\ ~jobs[j].registered => lateFromRelay(j) \/ lateFromWorker(j)
        /\ pickedUp(j) /\ jobs[j].route = Undefined =>
              /\ jobs[j].state = "failed"
              /\ jobs[j].reason = "RouteNotFound"
              /\ postsOf(j) = {}
              /\ \A k \in 1..Len(jobs) : jobs[k].parent # j

\* Both late producers have acted, and a job added after the removal of its
\* route has failed at pickup.
C11_Witness ==
    /\ \E j \in 1..Len(jobs) : ~jobs[j].registered /\ lateFromRelay(j)
                                 /\ jobs[j].reason = "RouteNotFound"
    /\ \E j \in 1..Len(jobs) : ~jobs[j].registered /\ lateFromWorker(j)

(***************************************************************************)
(* C12.  Attempt sequencing.                                               *)
(***************************************************************************)

\* C12: the handler of a retry job starts only after the handler of the job
\* it retries has ended and that job is marked failed.
C12_AttemptSequencing ==
    \A j \in 1..Len(jobs) :
        jobs[j].parent # NoJob /\ pickedUp(j) => jobs[jobs[j].parent].state = "failed"

(***************************************************************************)
(* C13.  A retry is a new queue entry with the original payload.           *)
(***************************************************************************)

waitIds == {wait[i] : i \in 1..Len(wait)}

\* A retry job and the job it retries, and the queue's waiting list.
retryLinks ==
    /\ \A j \in 1..Len(jobs) :
          jobs[j].parent # NoJob =>
              LET p == jobs[j].parent
              IN /\ p < j
                 /\ jobs[j].routeId = jobs[p].routeId
                 /\ jobs[j].payload = jobs[p].payload
                 /\ jobs[j].payload = calls[jobs[j].payload.id].payload
                 /\ jobs[j].attemptNumber = jobs[p].attemptNumber + 1
                 /\ jobs[p].reason \in {"DeliveryError", "TypeError"}
                 /\ p \notin waitIds
                 /\ Cardinality(postsOf(p)) <= 1
                 /\ \A k \in 1..Len(jobs) : jobs[k].parent = p => k = j
    /\ \A j \in 1..Len(jobs) : j \in waitIds <=> jobs[j].state = "waiting"
    /\ \A i, k \in 1..Len(wait) : wait[i] = wait[k] => i = k

\* C13: a retry job is a later queue entry than the job it retries and
\* carries that job's routeId, that job's payload, which is the payload the
\* relay call built and not the transformed one, and that job's
\* attemptNumber plus one; the retried job's entry has left the queue's
\* waiting list and posts at most once; and the entry of a failed or
\* completed job never changes again, so it is never handled again.
C13_RetryIsNewEntry ==
    /\ []retryLinks
    /\ [][\A j \in 1..Len(jobs) :
            jobs[j].state \in {"failed", "completed"} =>
                jobs'[j] = jobs[j] /\ postsOf(j)' = postsOf(j)]_vars

\* A retry job exists whose parent posted a transformed body different from
\* the payload, and the retry job has itself been handled.
C13_Witness ==
    \E j \in 1..Len(jobs) :
        /\ jobs[j].parent # NoJob
        /\ jobs[jobs[j].parent].state = "failed"
        /\ \E i \in postsOf(jobs[j].parent) : posts[i].body # jobs[j].payload
        /\ jobs[j].state \in {"completed", "failed"}

(***************************************************************************)
(* C14.  A failing transformation is handled as a failed delivery.         *)
(***************************************************************************)

childrenOf(j) == {k \in 1..Len(jobs) : jobs[k].parent = j}

\* The outcome the catch block gives job j for the route its handler read:
\* with a retry allowed, exactly one retry job with the next attempt number
\* and the backoff delay, added before the job is failed; otherwise the job
\* is failed at once and no job is added.
caughtOutcome(j) ==
    IF canRetry(jobs[j].route, jobs[j].attemptNumber)
    THEN /\ jobs[j].state = "failed" \/ (jobs[j].state = "active" /\ jobs[j].pc = "adding")
         /\ \E k \in 1..Len(jobs) :
               /\ childrenOf(j) = {k}
               /\ jobs[k].attemptNumber = jobs[j].attemptNumber + 1
               /\ jobs[k].delay = retryDelay(jobs[j].route.retryConfig, jobs[j].attemptNumber)
    ELSE jobs[j].state = "failed" /\ childrenOf(j) = {}

\* C14: a job whose transformation throws makes no post and gets the
\* outcome of a rejected post: a retry job with attemptNumber + 1 when the
\* route has a retryConfig and attemptNumber < maxAttempts, else failure
\* with no retry; and a job whose post was rejected gets the same outcome.
C14_TransformFailureIsDeliveryFailure ==
    \A j \in 1..Len(jobs) :
        /\ (pickedUp(j) /\ jobs[j].route # Undefined
              /\ transformThrows(jobs[j].route, jobs[j].payload))
           => /\ jobs[j].reason = "TypeError"
              /\ postsOf(j) = {}
              /\ jobs[j].response = "none"
              /\ caughtOutcome(j)
        /\ jobs[j].reason = "TypeError" =>
              transformThrows(jobs[j].route, jobs[j].payload)
        /\ jobs[j].reason = "DeliveryError" =>
              jobs[j].response = "error" /\ caughtOutcome(j)

\* A transformation failure was retried, and the retry's transformation
\* failure left the chain failed with a transformation failure on its last
\* allowed attempt.
C14_Witness ==
    /\ \E j \in 1..Len(jobs) :
          /\ jobs[j].reason = "TypeError"
          /\ jobs[j].state = "failed"
          /\ childrenOf(j) # {}
    /\ \E j \in 1..Len(jobs) :
          /\ jobs[j].reason = "TypeError"
          /\ jobs[j].state = "failed"
          /\ jobs[j].route.retryConfig # Undefined
          /\ jobs[j].attemptNumber = jobs[j].route.retryConfig.maxAttempts

(***************************************************************************)
(* C15.  A successful delivery ends the chain.                             *)
(***************************************************************************)

Pairs == {p \in (1..MaxRelays) \X RouteIds : p[1] <= Len(calls)}

pairJobs(p) ==
    {j \in 1..Len(jobs) : jobs[j].payload.id = p[1] /\ jobs[j].routeId = p[2]}

pairPosts(p) == {i \in 1..Len(posts) : posts[i].jobId \in pairJobs(p)}

deliveredJobs(p) == {j \in pairJobs(p) : jobs[j].response = "ok"}

\* C15: once a post for a (payload, route) pair has been answered with
\* success, no job is added and no post is made for the pair any more, no
\* job of the pair is left to be handed to the handler, and at most one
\* post of a pair is ever answered with success.
C15_DeliveredIsTerminal ==
    [][\A p \in Pairs :
          /\ Cardinality(deliveredJobs(p)') <= 1
          /\ deliveredJobs(p) # {} =>
                /\ pairJobs(p)' = pairJobs(p)
                /\ pairPosts(p)' = pairPosts(p)
                /\ deliveredJobs(p)' = deliveredJobs(p)
                /\ \A j \in pairJobs(p) : jobs[j].state \notin {"waiting", "delayed"}
                /\ \A j \in pairJobs(p) : jobs'[j].state # "active" \/ jobs[j].state = "active"]_vars

\* A pair was delivered on a retry, after which the service went on
\* handling another call.
C15_Witness ==
    \E p \in Pairs :
        /\ \E j \in deliveredJobs(p) : jobs[j].attemptNumber > 1
        /\ \E j \in 1..Len(jobs) : jobs[j].payload.id # p[1] /\ pickedUp(j)

(***************************************************************************)
(* C16.  Every chain finishes.                                             *)
(*                                                                         *)
(* The service as in Spec, with the steps the runtime takes by itself      *)
(* taken fairly: an awaited queue.add resolves, the queue hands a waiting  *)
(* job to a free handler, a post ends (axios gives up after its timeout),  *)
(* the catch block rethrows, a delay elapses.  Relay calls and route       *)
(* operations come from outside and are not forced.  The queue has room    *)
(* for the longest chain of every route of every call, MaxLiveRelays calls *)
(* and MaxLiveRouteOps route operations being made.                        *)
(***************************************************************************)
MaxLiveRelays == 1
MaxLiveRouteOps == 1

\* The most attempts a route sample registered under id allows.
maxAttemptsOf(id) ==
    LET ns == {allowedAttempts(route) : route \in {r \in RouteSamples : r.id = id}}
    IN CHOOSE n \in ns : \A k \in ns : k <= n

RECURSIVE sumAttempts(_)
sumAttempts(ids) ==
    IF ids = {} THEN 0
    ELSE LET id == CHOOSE x \in ids : TRUE
         IN maxAttemptsOf(id) + sumAttempts(ids \ {id})

LiveJobCap == MaxLiveRelays * sumAttempts(RouteIds)

InitLive ==
    /\ \E configRoutes \in ConfigSamples :
         /\ routes = constructorRoutes(configRoutes)
         /\ lastAdded = lastOf(configRoutes)
    /\ jobs = <<>>
    /\ wait = <<>>
    /\ calls = <<>>
    /\ posts = <<>>
    /\ touched = {}
    /\ ops = 0
    /\ jobCap = LiveJobCap
    /\ probe = NoProbe

relayLive ==
    /\ Len(calls) < MaxLiveRelays
    /\ \E in \in RelayInputs : relay_start(in.source, in.event, in.data, in.headers)

routeOpLive ==
    /\ ops < MaxLiveRouteOps
    /\ \/ \E route \in RouteSamples : addRoute(route)
       \/ \E routeId \in RouteIds : removeRoute(routeId)

relayResumes == \E c \in 1..Len(calls) : relay_resume(c)

postEnds == \E j \in 1..Len(jobs) : worker_postOk(j) \/ worker_postFail(j)

handlerThrows == \E j \in 1..Len(jobs) : worker_throw(j)

delayElapses == \E j \in 1..Len(jobs) : queue_promote(j)

NextLive ==
    \/ routeOpLive
    \/ relayLive
    \/ relayResumes
    \/ worker_pickup
    \/ postEnds
    \/ handlerThrows
    \/ delayElapses

Fairness ==
    /\ WF_vars(relayResumes)
    /\ WF_vars(worker_pickup)
    /\ WF_vars(postEnds)
    /\ WF_vars(handlerThrows)
    /\ WF_vars(delayElapses)

SpecLive == InitLive /\ [][NextLive]_vars /\ Fairness

finished(j) == j <= Len(jobs) /\ jobs[j].state \in {"completed", "failed"}

\* The outcome of a pair: delivered, or failed on the last job of its chain;
\* for a route left untouched the chain then has used every allowed attempt.
pairOutcome(p) ==
    \/ deliveredJobs(p) # {}
    \/ /\ \E j \in pairJobs(p) : jobs[j].state = "failed" /\ childrenOf(j) = {}
       /\ stable(p[1], p[2]) =>
             Cardinality(pairJobs(p)) = allowedAttempts(chainRoute(p[1], p[2]))

quiescent ==
    /\ \A j \in 1..Len(jobs) : finished(j)
    /\ \A p \in Pairs : pairJobs(p) # {} => pairOutcome(p)

\* C16: with the runtime's steps taken fairly, the queue eventually stays
\* without a waiting, delayed or active job: every job added by then, and
\* so every job ever added, is completed or failed, every pair is
\* delivered or failed for good, and a pair whose route was left alone was
\* retried until it was delivered or its attempts were used up.
C16_EveryChainFinishes == <>[]quiescent

\* The queue is at rest with one pair failed after all its attempts and
\* another pair delivered.
C16_Witness ==
    /\ jobs # <<>>
    /\ quiescent
    /\ \E p \in Pairs : deliveredJobs(p) # {}
    /\ \E p \in Pairs : /\ deliveredJobs(p) = {}
                        /\ stable(p[1], p[2])
                        /\ Cardinality(pairJobs(p)) > 1

(***************************************************************************)
(* C17.  Failed handlers are told from successful ones.                    *)
(***************************************************************************)

endedJobs == {j \in 1..Len(jobs) : jobs[j].state \in {"completed", "failed"}}

\* C17: a job is completed exactly when its post was answered with
\* success; a job whose route was missing, whose transformation threw or
\* whose post was rejected, retry added or not, ends failed with that
\* error; so the completed count of getStats counts the delivered jobs.
C17_CompletedIffDelivered ==
    /\ \A j \in 1..Len(jobs) :
          /\ jobs[j].state = "completed" <=> jobs[j].response = "ok"
          /\ jobs[j].state = "completed" =>
                jobs[j].reason = "none" /\ Cardinality(postsOf(j)) = 1
          /\ jobs[j].state = "failed" <=>
                /\ jobs[j].reason \in {"RouteNotFound", "TypeError", "DeliveryError"}
                /\ jobs[j].pc = "idle"
          /\ jobs[j].reason # "none" => jobs[j].state \in {"active", "failed"}
          /\ jobs[j].reason = "DeliveryError" <=> jobs[j].response = "error"
    /\ getStats(jobs).completed =
          Cardinality({j \in 1..Len(jobs) : jobs[j].response = "ok"})

\* Jobs have ended in each way: delivered, route missing, transformation
\* threw, post rejected with a retry added, post rejected without.
C17_Witness ==
    /\ getStats(jobs).completed >= 1
    /\ \E j \in endedJobs : jobs[j].reason = "DeliveryError" /\ childrenOf(j) # {}
    /\ \E j \in endedJobs : jobs[j].reason \in {"RouteNotFound", "TypeError"}

(***************************************************************************)
(* C18.  Only addRoute and removeRoute change the route table.             *)
(***************************************************************************)

\* C18: a step that changes the table is an addRoute or a removeRoute, sets
\* or deletes one entry and touches neither queue nor calls nor posts;
\* every step of a relay call, of the handler or of the queue, with the
\* matching query, getRoutes and getStats it evaluates, leaves the table as
\* it was.
C18_RouteTableFrame ==
    [][/\ routes' # routes =>
             /\ ops' = ops + 1
             /\ \/ \E route \in RouteSamples : routes' = mapSet(routes, route)
                \/ \E routeId \in RouteIds : routes' = mapDelete(routes, routeId)
             /\ UNCHANGED <<jobs, wait, calls, posts>>
       /\ (jobs' # jobs \/ wait' # wait \/ calls' # calls \/ posts' # posts \/ ops' = ops) =>
             /\ routes' = routes
             /\ getRoutes(routes') = getRoutes(routes)]_vars

\* The table is still the one the constructor built after relay calls have
\* returned and jobs have been delivered and failed.
C18_Witness ==
    /\ ops = 0
    /\ routes = constructorRoutes(<<RouteA, RouteB>>)
    /\ \E c \in 1..Len(calls) : calls[c].pc = "returned" /\ Len(calls[c].jobIds) = 2
    /\ \E j \in 1..Len(jobs) : jobs[j].state = "completed"
    /\ \E j \in 1..Len(jobs) : jobs[j].state = "failed"

(***************************************************************************)
(* C19.  The order of getRoutes.                                           *)
(***************************************************************************)

idsOf(list) == [i \in 1..Len(list) |-> list[i].id]

without(ids, id) == SelectSeq(ids, LAMBDA x : x # id)

\* The positions in list at which the members of sub are found, in sub's
\* order, are strictly increasing: sub is list restricted, order kept.
inOrderOf(sub, list) ==
    /\ \A i \in 1..Len(sub) : \E k \in 1..Len(list) : list[k] = sub[i]
    /\ \A i, k \in 1..Len(sub) :
          i < k => \E a, b \in 1..Len(list) : a < b /\ list[a] = sub[i] /\ list[b] = sub[k]

\* The listing holds each registered route once; a call's matching routes
\* are the matching routes of the listing the call saw, in its order, and
\* its jobIds are the jobs of those routes in that order.
listingOrder ==
    /\ \A i, k \in 1..Len(getRoutes(routes)) :
          getRoutes(routes)[i].id = getRoutes(routes)[k].id => i = k
    /\ \A id \in RouteIds :
          lastAdded[id] # Undefined <=>
              \E i \in 1..Len(getRoutes(routes)) : getRoutes(routes)[i] = lastAdded[id]
    /\ \A c \in 1..Len(calls) :
          /\ inOrderOf(calls[c].matching, getRoutes(calls[c].table))
          /\ \A i \in 1..Len(calls[c].table) :
                routeMatches(calls[c].table[i], calls[c].payload.source,
                             calls[c].payload.event)
                => \E k \in 1..Len(calls[c].matching) :
                       calls[c].matching[k] = calls[c].table[i]
          /\ Len(calls[c].jobIds) <= Len(calls[c].matching)
          /\ \A i \in 1..Len(calls[c].jobIds) :
                /\ jobs[calls[c].jobIds[i]].routeId = calls[c].matching[i].id
                /\ i > 1 => calls[c].jobIds[i - 1] < calls[c].jobIds[i]
          /\ calls[c].pc = "returned" => Len(calls[c].jobIds) = Len(calls[c].matching)

\* What a route operation does to the order of the listing: a route set
\* under an id not listed goes last, a route set under a listed id takes
\* the place of the one it replaces, a removed id leaves the others in
\* their order; no other step changes the listing.
listingStep ==
    LET ids == idsOf(getRoutes(routes))
        ids2 == idsOf(getRoutes(routes'))
        listed(id) == \E i \in 1..Len(ids) : ids[i] = id
    IN /\ lastAdded' = lastAdded => ids2 = ids
       /\ \A id \in RouteIds :
             lastAdded'[id] # lastAdded[id] =>
                 IF lastAdded'[id] = Undefined THEN ids2 = without(ids, id)
                 ELSE /\ ids2 = IF listed(id) THEN ids ELSE Append(ids, id)
                      /\ \E i \in 1..Len(ids2) : getRoutes(routes')[i] = lastAdded'[id]

\* C19: getRoutes lists every registered route once in insertion order, a
\* replaced route keeping its place and a removed and re-added one going
\* last; the matching query and the jobIds of relay follow that order.
C19_ListingOrder == []listingOrder /\ [][listingStep]_vars

\* A call saw the listing r1, r2 and got its two jobs in that order; r1
\* was then removed and added again and is now listed after r2.
C19_Witness ==
    /\ idsOf(getRoutes(routes)) = <<"r2", "r1">>
    /\ \E c \in 1..Len(calls) :
          /\ idsOf(getRoutes(calls[c].table)) = <<"r1", "r2">>
          /\ calls[c].pc = "returned"
          /\ Len(calls[c].jobIds) = 2

(***************************************************************************)
(* C20.  Attempt numbering of a pair.                                      *)
(***************************************************************************)

attemptsOf(p) == {jobs[j].attemptNumber : j \in pairJobs(p)}

pendingJobs(p) == {j \in pairJobs(p) : jobs[j].state \in {"waiting", "delayed"}}

\* C20: the jobs ever added for a (payload, route) pair carry the attempt
\* numbers 1..k, each once, and at most one of them is waiting or delayed,
\* whatever happened to the route meanwhile.
C20_AttemptNumbering ==
    \A p \in Pairs :
        /\ attemptsOf(p) = 1..Cardinality(pairJobs(p))
        /\ \A j, k \in pairJobs(p) : jobs[j].attemptNumber = jobs[k].attemptNumber => j = k
        /\ Cardinality(pendingJobs(p)) <= 1

\* A pair has had three jobs, the third still delayed, while its route was
\* replaced or removed under it.
C20_Witness ==
    \E p \in Pairs :
        /\ Cardinality(pairJobs(p)) = 3
        /\ \E j \in pendingJobs(p) : jobs[j].attemptNumber = 3 /\ jobs[j].state = "delayed"
        /\ ~stable(p[1], p[2])

====
